---- MODULE Spec2Model ----
(***************************************************************************)
(* A model of tumblr-download (the version with the -all flag): one run of *)
(* main, from flag parsing to process termination.  Strings that the       *)
(* program computes with (urls, response bodies, file names) are sequences *)
(* of one-character strings, so that trimming, replacing, formatting and   *)
(* path.Base are computed character by character as the library computes   *)
(* them.  Log messages and image bodies are opaque strings.                *)
(***************************************************************************)
EXTENDS Integers, Sequences, FiniteSets, TLC

\* ------------------------------------------------------------------ bounds
\* -page ranges over 0..MaxPage (and one far page)
MaxPage == 3
\* a decoded feed page holds at most MaxPosts posts
MaxPosts == 2
\* posts-total ranges over the multiples of 5 up to 5 * MaxTotalUnits
MaxTotalUnits == 9
\* a raw response body is a concatenation of at most MaxChunks chunks
MaxChunks == 3

\* the fixed page size of restRequest and of the page count in main
PageSize == 20

\* ------------------------------------------------------- string constants
WrapperPrefix == <<"v","a","r"," ","t","u","m","b","l","r","_","a","p","i","_","r","e","a","d"," ","="," ">>
Semicolon == <<";">>
Slash == <<"/">>
ApiPath == <<"/","a","p","i","/","r","e","a","d","/","j","s","o","n">>
StartQuery == <<"?","s","t","a","r","t","=">>
Digits == <<"0","1","2","3","4","5","6","7","8","9">>

ObjA == <<"{","\"","a","\"",":","1","}">>
VarFragment == <<"v","a","r"," ">>
UrlB == <<"h","t","t","p",":","/","/","b">>
UrlBSlash == <<"h","t","t","p",":","/","/","b","/">>
UrlBSlash2 == <<"h","t","t","p",":","/","/","b","/","/">>
PhotoExample == <<"h","t","t","p","s",":","/","/","x",".","t","u","m","b","l","r",".","c","o","m","/","a","b","c","/","i","m","a","g","e","1","2","3",".","j","p","g">>
PhotoDir == <<"h","t","t","p",":","/","/","x","/","a","b","c","/">>
PhotoOther == <<"h","t","t","p",":","/","/","y","/","i","m","a","g","e","1","2","3",".","j","p","g">>
HttpScheme == <<"h","t","t","p",":","/","/">>
HttpsScheme == <<"h","t","t","p","s",":","/","/">>

\* ------------------------------------------------------- library functions
\* s[k .. k+Len(sub)-1] = sub
OccursAt(s, sub, k) ==
    /\ k >= 1
    /\ k + Len(sub) - 1 <= Len(s)
    /\ SubSeq(s, k, k + Len(sub) - 1) = sub

\* strings.Index, 1-based; 0 when sub does not occur
Index(s, sub) ==
    IF \E k \in 1..Len(s) : OccursAt(s, sub, k)
    THEN CHOOSE k \in 1..Len(s) :
            /\ OccursAt(s, sub, k)
            /\ \A j \in 1..(k - 1) : ~OccursAt(s, sub, j)
    ELSE 0

\* strings.Replace(s, old, new, n) for a non-empty old: the first n
\* non-overlapping occurrences, left to right; all of them when n < 0
RECURSIVE Replace(_, _, _, _)
Replace(s, old, new, n) ==
    IF n = 0 \/ Index(s, old) = 0
    THEN s
    ELSE LET j == Index(s, old)
         IN  SubSeq(s, 1, j - 1) \o new
               \o Replace(SubSeq(s, j + Len(old), Len(s)), old, new,
                          IF n < 0 THEN n ELSE n - 1)

HasSuffix(s, suffix) ==
    /\ Len(suffix) <= Len(s)
    /\ SubSeq(s, Len(s) - Len(suffix) + 1, Len(s)) = suffix

HasPrefix(s, prefix) == OccursAt(s, prefix, 1)

TrimSuffix_none(s, suffix) == s

\* strings.TrimSuffix: one copy of suffix is removed, if s ends with it
TrimSuffix(s, suffix) ==
    IF HasSuffix(s, suffix) THEN SubSeq(s, 1, Len(s) - Len(suffix)) ELSE s

\* the %d verb of fmt.Sprintf for a non-negative int
RECURSIVE FormatNat(_)
FormatNat(n) ==
    IF n < 10 THEN <<Digits[n + 1]>>
    ELSE FormatNat(n \div 10) \o <<Digits[(n % 10) + 1]>>

\* the %d verb of fmt.Sprintf
FormatInt(n) == IF n < 0 THEN <<"-">> \o FormatNat(-n) ELSE FormatNat(n)

RECURSIVE StripTrailingSlashes(_)
StripTrailingSlashes(p) ==
    IF Len(p) > 0 /\ p[Len(p)] = "/"
    THEN StripTrailingSlashes(SubSeq(p, 1, Len(p) - 1))
    ELSE p

\* index of the last "/" of p, 0 when there is none
LastSlash(p) ==
    IF \E k \in 1..Len(p) : p[k] = "/"
    THEN CHOOSE k \in 1..Len(p) :
            p[k] = "/" /\ \A j \in (k + 1)..Len(p) : p[j] # "/"
    ELSE 0

\* path.Base: "." for the empty path, trailing slashes stripped, then the
\* text after the last slash, "/" when nothing is left
Base(p) ==
    IF p = <<>> THEN <<".">>
    ELSE LET q == StripTrailingSlashes(p)
             r == SubSeq(q, LastSlash(q) + 1, Len(q))
         IN  IF r = <<>> THEN <<"/">> ELSE r

\* ---------------------------------------------------------- feed fetcher
RestUrl_pageTimes(url, page) ==
    IF page # 1
    THEN url \o ApiPath \o StartQuery \o FormatInt(page * PageSize)
    ELSE url \o ApiPath

\* restRequest: the endpoint requested for a page
RestUrl(url, page) ==
    IF page # 1
    THEN url \o ApiPath \o StartQuery \o FormatInt((page - 1) * PageSize)
    ELSE url \o ApiPath

filterContent(data, orig, target, n) == Replace(data, orig, target, n)

GetJsonBytes_everyPrefix(body) ==
    filterContent(filterContent(body, WrapperPrefix, <<>>, -1), Semicolon, <<>>, -1)

\* GetJson applied to the body restRequest returned
GetJsonBytes(body) ==
    filterContent(filterContent(body, WrapperPrefix, <<>>, 1), Semicolon, <<>>, -1)

\* --------------------------------------------------------- program inputs
\* the positional argument flag.Arg(0); <<>> when it is missing
UrlArgs == {<<>>, Slash, UrlB, UrlBSlash, UrlBSlash2}
\* -page: 0, the default 1, the next pages, and one far page whose offset
\* has four digits
PageArgs == (0..MaxPage) \cup {51}

\* ------------------------------------------------------- the environment
\* chunks a raw response body is made of
Chunks == {WrapperPrefix, Semicolon, ObjA, VarFragment}

RECURSIVE BodiesOf(_)
BodiesOf(n) ==
    IF n = 0 THEN {<<>>}
    ELSE LET shorter == BodiesOf(n - 1)
         IN  shorter \cup {b \o c : b \in shorter, c \in Chunks}

\* the response bodies the server may send to a feed request in raw mode
Bodies == BodiesOf(MaxChunks)

\* the posts-total values a decoded feed page may carry (0 also stands for
\* a missing field or a body json.Unmarshal could not decode)
Totals == {5 * k : k \in 0..MaxTotalUnits}

PhotoUrls == {PhotoExample, PhotoOther, PhotoDir, <<>>}

\* the decoded Post values: Class and PhotoUrl are the fields the program
\* reads; "text" stands for every type other than "photo"
PostValues ==
    [Class : {"photo"}, PhotoUrl : PhotoUrls]
      \cup [Class : {"text"}, PhotoUrl : {PhotoExample}]

RECURSIVE PostListsOf(_)
PostListsOf(n) ==
    IF n = 0 THEN {<<>>}
    ELSE LET shorter == PostListsOf(n - 1)
         IN  shorter \cup {Append(l, p) : l \in shorter, p \in PostValues}

\* the Posts field of a decoded feed page (<<>> also stands for a body
\* json.Unmarshal could not decode)
PostLists == PostListsOf(MaxPosts)

ImageBodies == {"c1", "c2"}

\* what http.Get followed by ioutil.ReadAll can do:
\*   ok        the body is read
\*   err_nil   http.Get returns an error and a nil response
\*   err_resp  http.Get returns an error and a non-nil response (the
\*             redirect policy stopped the request)
\*   read_err  http.Get succeeds and ioutil.ReadAll returns an error
\* A url without http:// or https:// always fails with a nil response.
HttpGetOutcomes(u) ==
    IF HasPrefix(u, HttpScheme) \/ HasPrefix(u, HttpsScheme)
    THEN {"ok", "err_nil", "err_resp", "read_err"}
    ELSE {"err_nil"}

\* what ioutil.WriteFile can do; ".", ".." and "/" name directories
WriteOutcomes(name) ==
    IF name \in {<<".">>, <<".", ".">>, <<"/">>} THEN {"err"} ELSE {"ok", "err"}

\* ------------------------------------------------------------- the state
VARIABLES
    arg0,         \* flag.Arg(0)
    pagePtr,      \* -page
    rawJsonPtr,   \* -raw
    allPtr,       \* -all
    url,          \* main's url, the argument with its suffix trimmed
    pc,           \* where the run is
    posts,        \* t.Posts of the page DownloadImages is ranging over
    idx,          \* the index of the next post of that range
    silent,       \* the argument of DownloadImages
    pages,        \* main's pages
    i,            \* main's loop variable
    pageCounter,  \* the global pageCounter
    contents,     \* raw mode: what GetJson returned
    respBody,     \* raw mode: the body the server sent
    feedGets,     \* the feed GETs issued so far, in order
    lastImageGet, \* the latest photo GET, <<>> before the first
    lastWrite,    \* the latest file written, <<>> before the first
    files,        \* the working directory: file name -> content
    term,         \* "running", "exit0", "fatal" (log.Fatal) or "panic"
    diag          \* the message log.Fatal printed, "" when none

vars == <<arg0, pagePtr, rawJsonPtr, allPtr, url, pc, posts, idx, silent,
          pages, i, pageCounter, contents, respBody, feedGets, lastImageGet,
          lastWrite, files, term, diag>>

flagVars == <<arg0, pagePtr, rawJsonPtr, allPtr>>

NoFiles == [n \in {} |-> ""]

Init ==
    /\ arg0 \in UrlArgs
    /\ pagePtr \in PageArgs
    /\ rawJsonPtr \in BOOLEAN
    /\ allPtr \in BOOLEAN
    /\ url = <<>>
    /\ pc = "start"
    /\ posts = <<>>
    /\ idx = 1
    /\ silent = FALSE
    /\ pages = 0
    /\ i = 0
    /\ pageCounter = 0
    /\ contents = <<>>
    /\ respBody = <<>>
    /\ feedGets = <<>>
    /\ lastImageGet = <<>>
    /\ lastWrite = <<>>
    /\ files = NoFiles
    /\ term = "running"
    /\ diag = ""

\* ------------------------------------------------------------ operations
\* how the process ends after a GET that did not deliver a body
\* (restRequest and downloadImage: defer resp.Body.Close() comes before the
\* test of err, so a nil response panics before log.Fatal is reached)
GetFailureTerm(outcome) == IF outcome = "err_nil" THEN "panic" ELSE "fatal"

FeedFailureDiag(outcome) ==
    CASE outcome = "err_nil" -> ""
      [] outcome = "err_resp" -> "Trouble making REST GET request!"
      [] outcome = "read_err" -> "Trouble reading JSON response body!"

PhotoFailureDiag(outcome) ==
    CASE outcome = "err_nil" -> ""
      [] outcome = "err_resp" -> "Trouble making GET photo request!"
      [] outcome = "read_err" -> "Trouble reading response body!"

FeedGet(phase, page, outcome) ==
    [phase |-> phase, page |-> page, url |-> RestUrl(url, page),
     outcome |-> outcome]

ModeOf_allFirst(raw, all) ==
    IF all THEN "all_init" ELSE IF raw THEN "raw" ELSE "single"

\* main: which branch runs, -raw tested before -all
ModeOf(raw, all) ==
    IF raw THEN "raw" ELSE IF all THEN "all_init" ELSE "single"

\* main: the page of the request that obtains NumberOfPosts in -all mode
FirstPage == pagePtr

\* main: pages, from t.NumberOfPosts (non-negative here, where Go's / and %
\* agree with \div and %)
PageCount(total) ==
    IF total % PageSize # 0 THEN (total \div PageSize) + 1
    ELSE total \div PageSize

LoopContinues_inclusive(k, n) == k <= n

\* main: the condition of the -all loop
LoopContinues(k, n) == k < n

IsPhoto_always(post) == TRUE

\* DownloadImages: the posts that are not skipped
IsPhoto(post) == post.Class = "photo"

\* main up to the choice of the mode: the trimmed url, the usage exit
ParseArgs ==
    /\ pc = "start"
    /\ url' = TrimSuffix(arg0, Slash)
    /\ IF url' = <<>>
       THEN pc' = "done" /\ term' = "exit0"
       ELSE pc' = ModeOf(rawJsonPtr, allPtr) /\ term' = term
    /\ UNCHANGED <<flagVars, posts, idx, silent, pages, i, pageCounter,
                   contents, respBody, feedGets, lastImageGet, lastWrite, files,
                   diag>>

\* -raw: GetJson(url, *pagePtr, false)
RawGetJson ==
    /\ pc = "raw"
    /\ \E outcome \in HttpGetOutcomes(RestUrl(url, pagePtr)), body \in Bodies :
         /\ feedGets' = Append(feedGets, FeedGet("raw", pagePtr, outcome))
         /\ IF outcome = "ok"
            THEN /\ respBody' = body
                 /\ contents' = GetJsonBytes(body)
                 /\ pc' = "display"
                 /\ UNCHANGED <<term, diag>>
            ELSE /\ pc' = "done"
                 /\ term' = GetFailureTerm(outcome)
                 /\ diag' = FeedFailureDiag(outcome)
                 /\ UNCHANGED <<respBody, contents>>
    /\ UNCHANGED <<flagVars, url, posts, idx, silent, pages, i, pageCounter,
                   lastImageGet, lastWrite, files>>

\* displayRawJson: json.Indent accepts the contents or not
DisplayRawJson ==
    /\ pc = "display"
    /\ \E wellFormed \in BOOLEAN :
         /\ pc' = "done"
         /\ term' = IF wellFormed THEN "exit0" ELSE "fatal"
         /\ diag' = IF wellFormed THEN diag ELSE "Trouble with json indent!"
    /\ UNCHANGED <<flagVars, url, posts, idx, silent, pages, i, pageCounter,
                   contents, respBody, feedGets, lastImageGet, lastWrite, files>>

\* -all: t := NewTumblr(url, *pagePtr, true) and the page count
AllFirstRequest ==
    /\ pc = "all_init"
    /\ \E outcome \in HttpGetOutcomes(RestUrl(url, FirstPage)), total \in Totals :
         /\ feedGets' = Append(feedGets, FeedGet("init", FirstPage, outcome))
         /\ IF outcome = "ok"
            THEN /\ pages' = PageCount(total)
                 /\ i' = 1
                 /\ pc' = "loop"
                 /\ UNCHANGED <<term, diag>>
            ELSE /\ pc' = "done"
                 /\ term' = GetFailureTerm(outcome)
                 /\ diag' = FeedFailureDiag(outcome)
                 /\ UNCHANGED <<pages, i>>
    /\ UNCHANGED <<flagVars, url, posts, idx, silent, pageCounter, contents,
                   respBody, lastImageGet, lastWrite, files>>

\* -all: one pass of the loop up to DownloadImages(true):
\* t := NewTumblr(url, i, true)
AllLoopFetch ==
    /\ pc = "loop"
    /\ LoopContinues(i, pages)
    /\ \E outcome \in HttpGetOutcomes(RestUrl(url, i)), ps \in PostLists :
         /\ feedGets' = Append(feedGets, FeedGet("loop", i, outcome))
         /\ IF outcome = "ok"
            THEN /\ posts' = ps
                 /\ idx' = 1
                 /\ silent' = TRUE
                 /\ pc' = "dl"
                 /\ UNCHANGED <<term, diag>>
            ELSE /\ pc' = "done"
                 /\ term' = GetFailureTerm(outcome)
                 /\ diag' = FeedFailureDiag(outcome)
                 /\ UNCHANGED <<posts, idx, silent>>
    /\ UNCHANGED <<flagVars, url, pages, i, pageCounter, contents, respBody,
                   lastImageGet, lastWrite, files>>

\* -all: the loop ends, "Done! %d of %d pages downloaded", os.Exit(0)
AllDone ==
    /\ pc = "loop"
    /\ ~LoopContinues(i, pages)
    /\ pc' = "done"
    /\ term' = "exit0"
    /\ UNCHANGED <<flagVars, url, posts, idx, silent, pages, i, pageCounter,
                   contents, respBody, feedGets, lastImageGet, lastWrite, files,
                   diag>>

\* single page: t := NewTumblr(url, *pagePtr, false)
SingleRequest ==
    /\ pc = "single"
    /\ \E outcome \in HttpGetOutcomes(RestUrl(url, pagePtr)), ps \in PostLists :
         /\ feedGets' = Append(feedGets, FeedGet("single", pagePtr, outcome))
         /\ IF outcome = "ok"
            THEN /\ posts' = ps
                 /\ idx' = 1
                 /\ silent' = FALSE
                 /\ pc' = "dl"
                 /\ UNCHANGED <<term, diag>>
            ELSE /\ pc' = "done"
                 /\ term' = GetFailureTerm(outcome)
                 /\ diag' = FeedFailureDiag(outcome)
                 /\ UNCHANGED <<posts, idx, silent>>
    /\ UNCHANGED <<flagVars, url, pages, i, pageCounter, contents, respBody,
                   lastImageGet, lastWrite, files>>

\* DownloadImages, either variant: a post that is not a photo is skipped
SkipPost ==
    /\ pc = "dl"
    /\ idx <= Len(posts)
    /\ ~IsPhoto(posts[idx])
    /\ idx' = idx + 1
    /\ UNCHANGED <<flagVars, url, pc, posts, silent, pages, i, pageCounter,
                   contents, respBody, feedGets, lastImageGet, lastWrite, files,
                   term, diag>>

\* DownloadImages, either variant: post.downloadImage() for the next post
DownloadImage ==
    /\ pc = "dl"
    /\ idx <= Len(posts)
    /\ IsPhoto(posts[idx])
    /\ LET p == posts[idx]
           filename == Base(p.PhotoUrl)
       IN  \E outcome \in HttpGetOutcomes(p.PhotoUrl), body \in ImageBodies,
              wr \in WriteOutcomes(filename) :
             /\ lastImageGet' = <<[page |-> i, index |-> idx, post |-> p,
                                    url |-> p.PhotoUrl, outcome |-> outcome]>>
             /\ IF outcome # "ok"
                THEN /\ pc' = "done"
                     /\ term' = GetFailureTerm(outcome)
                     /\ diag' = PhotoFailureDiag(outcome)
                     /\ UNCHANGED <<idx, lastWrite, files>>
                ELSE IF filename = <<>>
                THEN /\ pc' = "done"
                     /\ term' = "fatal"
                     /\ diag' = "Trouble deriving file name"
                     /\ UNCHANGED <<idx, lastWrite, files>>
                ELSE IF wr # "ok"
                THEN /\ pc' = "done"
                     /\ term' = "fatal"
                     /\ diag' = "Trouble creating file!"
                     /\ UNCHANGED <<idx, lastWrite, files>>
                ELSE /\ lastWrite' = <<[page |-> i, index |-> idx, post |-> p,
                                      name |-> filename, content |-> body]>>
                     /\ files' = [n \in DOMAIN files \cup {filename} |->
                                    IF n = filename THEN body ELSE files[n]]
                     /\ idx' = idx + 1
                     /\ UNCHANGED <<pc, term, diag>>
    /\ UNCHANGED <<flagVars, url, posts, silent, pages, i, pageCounter,
                   contents, respBody, feedGets>>

\* -all: DownloadImages(true) returns; pageCounter++, the sleep, i++
AllPageDone ==
    /\ pc = "dl"
    /\ idx > Len(posts)
    /\ silent
    /\ pageCounter' = pageCounter + 1
    /\ i' = i + 1
    /\ pc' = "loop"
    /\ UNCHANGED <<flagVars, url, posts, idx, silent, pages, contents,
                   respBody, feedGets, lastImageGet, lastWrite, files, term, diag>>

\* single page: DownloadImages(false) returns; os.Exit(0)
SingleDone ==
    /\ pc = "dl"
    /\ idx > Len(posts)
    /\ ~silent
    /\ pc' = "done"
    /\ term' = "exit0"
    /\ UNCHANGED <<flagVars, url, posts, idx, silent, pages, i, pageCounter,
                   contents, respBody, feedGets, lastImageGet, lastWrite, files,
                   diag>>

Next ==
    \/ ParseArgs
    \/ RawGetJson
    \/ DisplayRawJson
    \/ AllFirstRequest
    \/ AllLoopFetch
    \/ AllDone
    \/ SingleRequest
    \/ SkipPost
    \/ DownloadImage
    \/ AllPageDone
    \/ SingleDone

Spec == Init /\ [][Next]_vars

\* ----------------------------------------------------------- properties
\* the text of u after its last "/" (all of u when it has none)
AfterLastSlash(u) == SubSeq(u, LastSlash(u) + 1, Len(u))

IsDigit(c) == \E v \in 1..10 : Digits[v] = c

DigitValue(c) == (CHOOSE v \in 1..10 : Digits[v] = c) - 1

\* the number a decimal numeral denotes
RECURSIVE DecimalValue(_)
DecimalValue(d) ==
    IF Len(d) = 0 THEN 0
    ELSE 10 * DecimalValue(SubSeq(d, 1, Len(d) - 1)) + DigitValue(d[Len(d)])

\* a decimal numeral without sign and without leading zeros
IsDecimal(d) ==
    /\ Len(d) >= 1
    /\ \A k \in 1..Len(d) : IsDigit(d[k])
    /\ Len(d) > 1 => d[1] # "0"

WithoutSemicolons(s) == SelectSeq(s, LAMBDA c : c # ";")

\* the character of a request url right before its "/api/read/json" is
\* not a slash
NoSlashBeforeApiPath(u) ==
    LET j == Index(u, ApiPath)
    IN  j > 1 /\ u[j - 1] # "/"

\* -all without -raw, once the first feed response has given pages
AllModeStarted ==
    /\ allPtr /\ ~rawJsonPtr
    /\ pc \in {"loop", "dl", "done"}
    /\ Len(feedGets) >= 1
    /\ feedGets[1].outcome = "ok"

\* C1: every feed request for page 1 asks for exactly url + "/api/read/json",
\* and every feed request for a page N > 1 asks for exactly
\* url + "/api/read/json?start=" + the decimal numeral of (N-1)*20.
C1_RestRequestUrl ==
    \A k \in DOMAIN feedGets :
        LET g == feedGets[k]
            head == url \o ApiPath \o StartQuery
        IN  /\ g.page = 1 => g.url = url \o ApiPath
            /\ g.page > 1 =>
                 /\ Len(g.url) > Len(head)
                 /\ SubSeq(g.url, 1, Len(head)) = head
                 /\ LET d == SubSeq(g.url, Len(head) + 1, Len(g.url))
                    IN  IsDecimal(d) /\ DecimalValue(d) = (g.page - 1) * 20

\* one run has requested the far page 51 (offset 1000) and then page 1
C1_Witness ==
    /\ Len(feedGets) = 2
    /\ feedGets[1].page = 51
    /\ feedGets[1].url = UrlB \o ApiPath \o StartQuery \o <<"1", "0", "0", "0">>
    /\ feedGets[2].page = 1
    /\ feedGets[2].url = UrlB \o ApiPath

\* C2: what GetJson returns is the response body with the first occurrence
\* of "var tumblr_api_read = " removed (only the first) and then every ";"
\* removed; it never contains a ";", and the body
\* var tumblr_api_read = {"a":1}; gives exactly {"a":1}.
C2_GetJsonUnwraps ==
    pc = "display" =>
        /\ \A k \in 1..Len(contents) : contents[k] # ";"
        /\ IF \E k \in 1..Len(respBody) : OccursAt(respBody, WrapperPrefix, k)
           THEN \E k \in 1..Len(respBody) :
                   /\ OccursAt(respBody, WrapperPrefix, k)
                   /\ \A j \in 1..(k - 1) : ~OccursAt(respBody, WrapperPrefix, j)
                   /\ contents = WithoutSemicolons(
                          SubSeq(respBody, 1, k - 1)
                            \o SubSeq(respBody, k + Len(WrapperPrefix), Len(respBody)))
           ELSE contents = WithoutSemicolons(respBody)
        /\ respBody = WrapperPrefix \o ObjA \o Semicolon => contents = ObjA

\* the example body has been unwrapped
C2_Witness ==
    /\ pc = "display"
    /\ respBody = WrapperPrefix \o ObjA \o Semicolon
    /\ contents = ObjA

C4_FirstRequestIsPageOne ==
    (allPtr /\ ~rawJsonPtr /\ Len(feedGets) >= 1) =>
        /\ feedGets[1].page = 1
        /\ feedGets[1].url = url \o ApiPath

\* C5 as stated: after a feed GET or a photo GET for which http.Get
\* returned an error, the process has logged the diagnostic of that failure
\* and has ended through log.Fatal.
C5_TransportFailureIsFatal ==
    /\ \A k \in DOMAIN feedGets :
          feedGets[k].outcome \in {"err_nil", "err_resp"} =>
              term = "fatal" /\ diag = "Trouble making REST GET request!"
    /\ \A k \in DOMAIN lastImageGet :
          lastImageGet[k].outcome \in {"err_nil", "err_resp"} =>
              term = "fatal" /\ diag = "Trouble making GET photo request!"

\* C6 as stated: downloadImage on a photo post whose photoUrl has nothing
\* after its last "/" ends the process with the fatal error about the file
\* name and writes no file (stated for a GET that delivered its body, where
\* the file name is the only thing left to fail on).
C6_EmptySegmentIsFatal ==
    \A k \in DOMAIN lastImageGet :
        (AfterLastSlash(lastImageGet[k].url) = <<>>
           /\ lastImageGet[k].outcome = "ok") =>
            /\ term = "fatal"
            /\ diag = "Trouble deriving file name"
            /\ \A j \in DOMAIN lastWrite :
                  lastWrite[j].post.PhotoUrl # lastImageGet[k].url

\* C7 as stated: a file written for a photo post is named exactly the text
\* of photoUrl after its last "/" and holds the response body.
C7_FileNamedAfterLastSlash ==
    \A k \in DOMAIN lastWrite :
        /\ lastWrite[k].name = AfterLastSlash(lastWrite[k].post.PhotoUrl)
        /\ lastWrite[k].name \in DOMAIN files
        /\ files[lastWrite[k].name] = lastWrite[k].content

\* C8: with -raw the run issues no photo GET, writes no file and never
\* enters the -all branch; it issues at most one feed GET, and exactly one,
\* for the page given by -page, once a url was given and the GET was made.
C8_RawModeOnlyFetches ==
    rawJsonPtr =>
        /\ Len(feedGets) <= 1
        /\ lastImageGet = <<>>
        /\ lastWrite = <<>>
        /\ files = NoFiles
        /\ pc \in {"start", "raw", "display", "done"}
        /\ pages = 0 /\ i = 0 /\ pageCounter = 0
        /\ (pc = "display" \/ (pc = "done" /\ url # <<>>)) =>
              /\ Len(feedGets) = 1
              /\ feedGets[1].phase = "raw"
              /\ feedGets[1].page = pagePtr

\* -raw together with -all and -page 2: the run has ended after its one
\* feed GET
C8_Witness ==
    /\ rawJsonPtr /\ allPtr /\ pagePtr = 2
    /\ term = "exit0"
    /\ Len(feedGets) = 1
    /\ feedGets[1].outcome = "ok"

\* C9: a step of DownloadImages issues a photo GET or writes a file only
\* when the post in turn is of type "photo"; a post of any other type is
\* skipped, and the loop goes on with the next post.
C9_OnlyPhotosDownloaded ==
    /\ [][(lastImageGet' # lastImageGet \/ lastWrite' # lastWrite
             \/ files' # files)
           => (pc = "dl" /\ idx <= Len(posts) /\ posts[idx].Class = "photo")]_vars
    /\ [][(pc = "dl" /\ idx <= Len(posts) /\ posts[idx].Class # "photo")
           => (idx' = idx + 1 /\ pc' = "dl" /\ posts' = posts
                 /\ term' = "running")]_vars

\* a page of two posts: the text post was skipped and the photo post after
\* it was downloaded
C9_Witness ==
    /\ Len(posts) = 2
    /\ posts[1].Class = "text"
    /\ posts[2].Class = "photo"
    /\ silent
    /\ idx = 3
    /\ Len(lastImageGet) = 1 /\ lastImageGet[1].index = 2
    /\ Len(lastWrite) = 1 /\ lastWrite[1].index = 2 /\ lastWrite[1].page = i

\* C10 as stated: when the url argument ends with a slash, no feed request
\* url has a slash before "/api/read/json".
C10_NoSlashBeforeApiPath ==
    HasSuffix(arg0, Slash) =>
        \A k \in DOMAIN feedGets : NoSlashBeforeApiPath(feedGets[k].url)

\* C10 as amended: exactly one trailing slash is removed from the argument
\* before "/api/read/json" is appended; when the argument ends with exactly
\* one slash, no feed request url has a slash before "/api/read/json".
C10_OneSlashTrimmed ==
    HasSuffix(arg0, Slash) =>
        \A k \in DOMAIN feedGets :
            LET u == feedGets[k].url
                trimmed == SubSeq(arg0, 1, Len(arg0) - 1)
            IN  /\ HasPrefix(u, trimmed \o ApiPath)
                /\ ~HasSuffix(trimmed, Slash) => NoSlashBeforeApiPath(u)

\* the argument http://b/ in -all mode, after the first request and one
\* request of the loop
C10_Witness ==
    /\ arg0 = UrlBSlash
    /\ allPtr /\ ~rawJsonPtr
    /\ Len(feedGets) = 2
    /\ feedGets[2].url = UrlB \o ApiPath

====
